---- MODULE Spec2Model ----
(***************************************************************************)
(* Model of the Dynalinks React Native SDK binding layer: the TypeScript   *)
(* facade (Dynalinks.ts), its error normalizer (errors.ts, two             *)
(* generations) and result normalizer (parseResult), and the native        *)
(* module behind it.                                                       *)
(***************************************************************************)
EXTENDS Integers, Sequences, FiniteSets, Bags, TLC

VARIABLES
    calls,      \* the facade invocations made so far: a bag of call records
    table,      \* which generation of errors.ts the build links ("v11" or "v7")
    ncode,      \* error normalizer under test: the native code handed to it
    nmsg,       \* error normalizer under test: the native message handed to it
    nerr,       \* error normalizer under test: what the 11-variant generation returned
    nerr7,      \* error normalizer under test: what the 7-variant generation returned
    pin,        \* result normalizer under test: the native payload handed to it
    pflag,      \* result normalizer under test: the isDeferred flag handed to it
    pout,       \* result normalizer under test: what parseResult returned
    pagain,     \* result normalizer under test: parseResult applied to its own link output
    platform,   \* the native module behind DynalinksModule ("android", "ios", "iosLegacy"),
                \* or "interface" when only its TypeScript interface is assumed
    configured  \* the external SDK's own state: has its configure succeeded

vars == <<calls, table, ncode, nmsg, nerr, nerr7, pin, pflag, pout, pagain,
          platform, configured>>

\* What a facade step leaves alone besides the calls.
build == <<table, platform>>
parser == <<pin, pflag, pout, pagain>>
harness == <<ncode, nmsg, nerr, nerr7, parser>>

(***************************************************************************)
(* Bounds.                                                                 *)
(***************************************************************************)
MaxCalls == 2

(***************************************************************************)
(* JavaScript values.  Every value carries its type tag, so that           *)
(* undefined, null, "" and false stay distinct.                            *)
(***************************************************************************)
Undefined == [t |-> "undefined"]
Null == [t |-> "null"]
Str(s) == [t |-> "string", v |-> s]
Bool(b) == [t |-> "boolean", v |-> b]
Num(n) == [t |-> "number", v |-> n]
Obj(f) == [t |-> "object", f |-> f]

\* ToBoolean: the falsy values are undefined, null, "", false and 0.
Truthy(v) == v \notin {Undefined, Null, Str(""), Bool(FALSE), Num(0)}

\* a || b
JsOr(a, b) == IF Truthy(a) THEN a ELSE b

\* o.k throws a TypeError exactly when o is undefined or null.
ReadThrows(o) == o \in {Undefined, Null}

\* o.k for a value o that is not undefined or null: the property's value, or
\* undefined when o has no such property (primitives have none of ours).
Get(o, k) == IF o.t = "object" /\ k \in DOMAIN o.f THEN o.f[k] ELSE Undefined

\* Number::toString of an integer.
RECURSIVE NatToString(_)
NatToString(n) ==
    IF n < 10
    THEN SubSeq("0123456789", n + 1, n + 1)
    ELSE NatToString(n \div 10) \o SubSeq("0123456789", (n % 10) + 1, (n % 10) + 1)

IntToString(n) == IF n < 0 THEN "-" \o NatToString(0 - n) ELSE NatToString(n)

\* ToString, as the Error constructor applies it to its message argument.
JsToString(v) ==
    CASE v.t = "string" -> v.v
      [] v.t = "number" -> IntToString(v.v)
      [] v.t = "undefined" -> "undefined"
      [] v.t = "null" -> "null"
      [] v.t = "boolean" -> (IF v.v THEN "true" ELSE "false")
      [] v.t = "object" -> "[object Object]"

\* The TypeError the engine throws on a property read of undefined or null.
TypeError == Obj([name |-> Str("TypeError"),
                  message |-> Str("Cannot read properties of undefined")])

(***************************************************************************)
(* errors.ts: the typed errors.                                            *)
(***************************************************************************)
\* new DynalinksError(code, message): super(message) leaves the message empty
\* for undefined and stringifies anything else.
DynalinksError(code, message) ==
    [t |-> "DynalinksError", code |-> code,
     message |-> IF message = Undefined THEN "" ELSE JsToString(message)]

\* A constructor parameter whose default value is never taken.
DefaultArgIgnored(message, default) == message

\* A constructor parameter with a default value takes the default exactly
\* when the argument is undefined.
DefaultArg(message, default) == IF message = Undefined THEN Str(default) ELSE message

NotConfiguredError ==
    DynalinksError("NOT_CONFIGURED",
        Str("Dynalinks SDK has not been configured. Call Dynalinks.configure() first."))

InvalidApiKeyError(message) ==
    DynalinksError("INVALID_API_KEY", DefaultArg(message, "Invalid API key format"))

SimulatorError ==
    DynalinksError("SIMULATOR",
        Str("Deferred deep linking is not available on simulator/emulator. Set allowSimulator: true in configuration for testing."))

NetworkError(message) ==
    DynalinksError("NETWORK_ERROR", DefaultArg(message, "Network request failed"))

ServerError(message) ==
    DynalinksError("SERVER_ERROR", DefaultArg(message, "Server error"))

InvalidResponseError ==
    DynalinksError("INVALID_RESPONSE", Str("Received invalid response from server"))

NoMatchError ==
    DynalinksError("NO_MATCH", Str("No matching link found"))

InstallReferrerUnavailableError ==
    DynalinksError("INSTALL_REFERRER_UNAVAILABLE",
        Str("Install referrer service is unavailable on this device"))

InstallReferrerTimeoutError ==
    DynalinksError("INSTALL_REFERRER_TIMEOUT", Str("Install referrer service timed out"))

InvalidUrlError(message) ==
    DynalinksError("INVALID_URL", DefaultArg(message, "Invalid URL format"))

\* The default branch without its placeholder.
UnknownErrorNoPlaceholder(message) == DynalinksError("UNKNOWN", message)

\* The default branch of both generations of fromNativeError.
UnknownError(message) ==
    DynalinksError("UNKNOWN", JsOr(message, Str("Unknown error occurred")))

\* A 7-variant table that hands the native message to every variant, also
\* to those the newer table gives a fixed message.
fromNativeErrorV7Echo(code, message) ==
    CASE code = Str("NOT_CONFIGURED") -> DynalinksError("NOT_CONFIGURED", message)
      [] code = Str("INVALID_API_KEY") -> InvalidApiKeyError(message)
      [] code = Str("SIMULATOR") -> DynalinksError("SIMULATOR", message)
      [] code = Str("NETWORK_ERROR") -> NetworkError(message)
      [] code = Str("SERVER_ERROR") -> ServerError(message)
      [] code = Str("INVALID_RESPONSE") -> DynalinksError("INVALID_RESPONSE", message)
      [] code = Str("NO_MATCH") -> DynalinksError("NO_MATCH", message)
      [] OTHER -> UnknownError(message)

\* fromNativeError, the 7-variant generation.
fromNativeErrorV7(code, message) ==
    CASE code = Str("NOT_CONFIGURED") -> NotConfiguredError
      [] code = Str("INVALID_API_KEY") -> InvalidApiKeyError(message)
      [] code = Str("SIMULATOR") -> SimulatorError
      [] code = Str("NETWORK_ERROR") -> NetworkError(message)
      [] code = Str("SERVER_ERROR") -> ServerError(message)
      [] code = Str("INVALID_RESPONSE") -> InvalidResponseError
      [] code = Str("NO_MATCH") -> NoMatchError
      [] OTHER -> UnknownError(message)

\* The older table in the place of the newer one.
fromNativeErrorOlder(code, message) == fromNativeErrorV7(code, message)

\* A default branch that hands the native code through.
fromNativeErrorPassThrough(code, message) ==
    IF code \in { Str("NOT_CONFIGURED"), Str("INVALID_API_KEY"), Str("SIMULATOR"),
                  Str("NETWORK_ERROR"), Str("SERVER_ERROR"), Str("INVALID_RESPONSE"),
                  Str("NO_MATCH") }
    THEN fromNativeErrorV7(code, message)
    ELSE DynalinksError(JsToString(code), JsOr(message, Str("Unknown error occurred")))

\* A table whose static variants carry the native message.
fromNativeErrorEcho(code, message) ==
    IF code \in { Str("NOT_CONFIGURED"), Str("SIMULATOR"), Str("INVALID_RESPONSE"),
                  Str("NO_MATCH"), Str("INSTALL_REFERRER_UNAVAILABLE"),
                  Str("INSTALL_REFERRER_TIMEOUT") }
    THEN DynalinksError(code.v, message)
    ELSE fromNativeErrorV7(code, message)

\* fromNativeError, the 11-variant generation.  The switch compares with ===,
\* so only a string code can match a case.
fromNativeError(code, message) ==
    CASE code = Str("NOT_CONFIGURED") -> NotConfiguredError
      [] code = Str("INVALID_API_KEY") -> InvalidApiKeyError(message)
      [] code = Str("SIMULATOR") -> SimulatorError
      [] code = Str("NETWORK_ERROR") -> NetworkError(message)
      [] code = Str("SERVER_ERROR") -> ServerError(message)
      [] code = Str("INVALID_RESPONSE") -> InvalidResponseError
      [] code = Str("NO_MATCH") -> NoMatchError
      [] code = Str("INSTALL_REFERRER_UNAVAILABLE") -> InstallReferrerUnavailableError
      [] code = Str("INSTALL_REFERRER_TIMEOUT") -> InstallReferrerTimeoutError
      [] code = Str("INVALID_URL") -> InvalidUrlError(message)
      [] code = Str("INVALID_INTENT") -> InvalidUrlError(message)
      [] OTHER -> UnknownError(message)

\* The fromNativeError that './errors' resolves to in the build.
ErrorsModule(tbl, code, message) ==
    IF tbl = "v11" THEN fromNativeError(code, message)
    ELSE fromNativeErrorV7(code, message)

\* A link literal that fills in what the link object does not have.
LinkDataCoerced(link) ==
    Obj([id |-> Get(link, "id"),
         name |-> JsOr(Get(link, "name"), Str("")),
         path |-> JsOr(Get(link, "path"), Str("")),
         shortenedPath |-> JsOr(Get(link, "shortened_path"), Str("")),
         url |-> JsOr(Get(link, "url"), Null),
         fullUrl |-> JsOr(Get(link, "full_url"), Null),
         deepLinkValue |-> JsOr(Get(link, "deep_link_value"), Str("")),
         iosFallbackUrl |-> JsOr(Get(link, "ios_fallback_url"), Null),
         androidFallbackUrl |-> JsOr(Get(link, "android_fallback_url"), Null),
         enableForcedRedirect |-> JsOr(Get(link, "enable_forced_redirect"), Bool(FALSE)),
         socialTitle |-> JsOr(Get(link, "social_title"), Str("")),
         socialDescription |-> JsOr(Get(link, "social_description"), Str("")),
         socialImageUrl |-> JsOr(Get(link, "social_image_url"), Null),
         clicks |-> JsOr(Get(link, "clicks"), Num(0))])

\* A link literal with the two fallback URLs crossed.
LinkDataCrossed(link) ==
    Obj([id |-> Get(link, "id"),
         name |-> Get(link, "name"),
         path |-> Get(link, "path"),
         shortenedPath |-> Get(link, "shortened_path"),
         url |-> Get(link, "url"),
         fullUrl |-> Get(link, "full_url"),
         deepLinkValue |-> Get(link, "deep_link_value"),
         iosFallbackUrl |-> Get(link, "android_fallback_url"),
         androidFallbackUrl |-> Get(link, "ios_fallback_url"),
         enableForcedRedirect |-> Get(link, "enable_forced_redirect"),
         socialTitle |-> Get(link, "social_title"),
         socialDescription |-> Get(link, "social_description"),
         socialImageUrl |-> Get(link, "social_image_url"),
         clicks |-> Get(link, "clicks")])

(***************************************************************************)
(* Dynalinks.ts: the result normalizer.                                    *)
(***************************************************************************)
\* The LinkData literal of parseResult: every field is a property read of the
\* native link object.
LinkData(link) ==
    Obj([id |-> Get(link, "id"),
         name |-> Get(link, "name"),
         path |-> Get(link, "path"),
         shortenedPath |-> Get(link, "shortened_path"),
         url |-> Get(link, "url"),
         fullUrl |-> Get(link, "full_url"),
         deepLinkValue |-> Get(link, "deep_link_value"),
         iosFallbackUrl |-> Get(link, "ios_fallback_url"),
         androidFallbackUrl |-> Get(link, "android_fallback_url"),
         enableForcedRedirect |-> Get(link, "enable_forced_redirect"),
         socialTitle |-> Get(link, "social_title"),
         socialDescription |-> Get(link, "social_description"),
         socialImageUrl |-> Get(link, "social_image_url"),
         clicks |-> Get(link, "clicks")])

\* A parseResult that reads the link's fields without looking whether there
\* is a link: the read throws when there is none.
parseResultUnguarded(nativeResult, isDeferred) ==
    IF ReadThrows(Get(nativeResult, "link"))
    THEN TypeError
    ELSE Obj([matched |-> JsOr(Get(nativeResult, "matched"), Bool(FALSE)),
              confidence |-> Get(nativeResult, "confidence"),
              matchScore |-> Get(nativeResult, "match_score"),
              link |-> LinkData(Get(nativeResult, "link")),
              isDeferred |-> Bool(isDeferred)])

\* A parseResult that defaults the two match fields.
parseResultDefaulting(nativeResult, isDeferred) ==
    Obj([matched |-> JsOr(Get(nativeResult, "matched"), Bool(FALSE)),
         confidence |-> JsOr(Get(nativeResult, "confidence"), Str("low")),
         matchScore |-> JsOr(Get(nativeResult, "match_score"), Num(0)),
         link |-> IF Truthy(Get(nativeResult, "link"))
                  THEN LinkData(Get(nativeResult, "link"))
                  ELSE Undefined,
         isDeferred |-> Bool(isDeferred)])

\* A parseResult that hands the payload's link object on as it came.
parseResultKeepsLink(nativeResult, isDeferred) ==
    Obj([matched |-> JsOr(Get(nativeResult, "matched"), Bool(FALSE)),
         confidence |-> Get(nativeResult, "confidence"),
         matchScore |-> Get(nativeResult, "match_score"),
         link |-> IF Truthy(Get(nativeResult, "link"))
                  THEN Get(nativeResult, "link")
                  ELSE Undefined,
         isDeferred |-> Bool(isDeferred)])

\* A parseResult that lets the payload's own flag win.
parseResultFromPayload(nativeResult, isDeferred) ==
    Obj([matched |-> JsOr(Get(nativeResult, "matched"), Bool(FALSE)),
         confidence |-> Get(nativeResult, "confidence"),
         matchScore |-> Get(nativeResult, "match_score"),
         link |-> IF Truthy(Get(nativeResult, "link"))
                  THEN LinkData(Get(nativeResult, "link"))
                  ELSE Undefined,
         isDeferred |-> IF Get(nativeResult, "is_deferred") # Undefined
                        THEN Get(nativeResult, "is_deferred")
                        ELSE Bool(isDeferred)])

\* parseResult(nativeResult, isDeferred), for a nativeResult that can be read
\* (the caller handles the TypeError of the other case).
parseResult(nativeResult, isDeferred) ==
    Obj([matched |-> JsOr(Get(nativeResult, "matched"), Bool(FALSE)),
         confidence |-> Get(nativeResult, "confidence"),
         matchScore |-> Get(nativeResult, "match_score"),
         link |-> IF Truthy(Get(nativeResult, "link"))
                  THEN LinkData(Get(nativeResult, "link"))
                  ELSE Undefined,
         isDeferred |-> Bool(isDeferred)])

(***************************************************************************)
(* Dynalinks.ts: the facade.  A promise is pending, resolved or rejected.  *)
(***************************************************************************)
Pending == [kind |-> "pending", value |-> Undefined]
Resolved(v) == [kind |-> "resolved", value |-> v]
Rejected(e) == [kind |-> "rejected", value |-> e]

\* A payload built without the defaults.
ConfigurePayloadNoDefaults(config) ==
    Obj([clientAPIKey |-> Get(config, "clientAPIKey"),
         baseURL |-> Get(config, "baseURL"),
         logLevel |-> Get(config, "logLevel"),
         allowSimulator |-> Get(config, "allowSimulator")])

\* The object literal configure passes to DynalinksModule.configure.
ConfigurePayload(config) ==
    Obj([clientAPIKey |-> Get(config, "clientAPIKey"),
         baseURL |-> Get(config, "baseURL"),
         logLevel |-> JsOr(Get(config, "logLevel"), Str("error")),
         allowSimulator |-> JsOr(Get(config, "allowSimulator"), Bool(FALSE))])

\* catch (error: any) { throw fromNativeError(error.code || 'UNKNOWN', error.message); }
\* Reading error.code of undefined or null throws inside the handler, and
\* that TypeError is what the promise rejects with.
Catch(tbl, error) ==
    IF ReadThrows(error)
    THEN Rejected(TypeError)
    ELSE Rejected(ErrorsModule(tbl, JsOr(Get(error, "code"), Str("UNKNOWN")),
                               Get(error, "message")))

\* The part of configure after the await.
ConfigureSettle(tbl, native) ==
    IF native.kind = "resolved" THEN Resolved(Undefined) ELSE Catch(tbl, native.value)

\* The part of checkForDeferredDeepLink / resolveLink after the await:
\* parseResult runs inside the try block, so what it throws is caught.
ResultSettle(tbl, native, isDeferred) ==
    IF native.kind = "resolved"
    THEN IF ReadThrows(native.value)
         THEN Catch(tbl, TypeError)
         ELSE Resolved(parseResult(native.value, isDeferred))
    ELSE Catch(tbl, native.value)

(***************************************************************************)
(* Inputs: what callers pass to the facade and what the native module can  *)
(* answer.                                                                 *)
(***************************************************************************)
Configs ==
    { Obj([clientAPIKey |-> Str("k")]),
      Obj([clientAPIKey |-> Str("")]),
      Obj([clientAPIKey |-> Str(" "), logLevel |-> Str("none"),
           allowSimulator |-> Bool(FALSE)]),
      Obj([logLevel |-> Str("info")]),
      Obj([clientAPIKey |-> Str("k"), baseURL |-> Str("https://api.example/v1"),
           logLevel |-> Str("debug"), allowSimulator |-> Bool(TRUE)]) }

Urls == { Str("https://app.example/p/42"), Str("") }

NativeLinks ==
    { Obj([id |-> Str("abc"), deep_link_value |-> Str("product/42")]),
      Obj([id |-> Str("abc"), shortened_path |-> Str("s"), clicks |-> Num(0),
           ios_deferred_deep_linking_enabled |-> Bool(TRUE)]) }

\* What DynalinksModule.checkForDeferredDeepLink / resolveLink may resolve
\* with: the interface types it as any.
Payloads ==
    { Undefined,
      Obj(<<>>),
      Obj([matched |-> Bool(FALSE), is_deferred |-> Bool(FALSE), isDeferred |-> Bool(FALSE)]),
      Obj([matched |-> Bool(TRUE), is_deferred |-> Bool(TRUE), isDeferred |-> Bool(TRUE),
           confidence |-> Str("high"), match_score |-> Num(87),
           link |-> Obj([id |-> Str("abc"), deep_link_value |-> Str("product/42")])]),
      Obj([matched |-> Bool(TRUE), is_deferred |-> Bool(FALSE),
           link |-> Obj([id |-> Str("abc"), shortened_path |-> Str("s"),
                         clicks |-> Num(0),
                         ios_deferred_deep_linking_enabled |-> Bool(TRUE)])]) }

\* What a DynalinksModule promise may reject with: any value.
Rejections ==
    { Undefined, Null, Obj(<<>>),
      Obj([message |-> Str("boom")]),
      Obj([code |-> Str("NETWORK_ERROR")]),
      Obj([code |-> Str("SIMULATOR"), message |-> Str("sim")]),
      Obj([code |-> Str("E_OTHER"), message |-> Str("")]) }

(***************************************************************************)
(* The facade's invocations.  An operation calls the native module and     *)
(* awaits it; the native module settles; the rest of the operation runs.   *)
(* The facade keeps nothing between calls, so the calls made so far are a  *)
(* bag of records, each with its own argument, native answer and outcome.  *)
(***************************************************************************)
\* What the native module handed to the external SDK for a call: nothing yet.
NoSdkCall == [op |-> "none"]

Replace(c, d) == (calls (-) SetToBag({c})) (+) SetToBag({d})

\* The synchronous part of an operation: one call into DynalinksModule.
Invoke(op, arg, forwarded) ==
    /\ BagCardinality(calls) < MaxCalls
    /\ calls' = calls (+) SetToBag({
                    [op |-> op, arg |-> arg, pc |-> "awaiting", forwarded |-> forwarded,
                     bridgeCalls |-> 1, sdkCall |-> NoSdkCall,
                     native |-> Pending, outcome |-> Pending]})
    /\ UNCHANGED <<build, harness, configured>>

configure(config) == Invoke("configure", config, ConfigurePayload(config))

\* A checkForDeferredDeepLink that answers from an earlier result instead of
\* calling the native module again.
checkForDeferredDeepLinkCached ==
    IF \E c \in BagToSet(calls) :
           c.op = "checkForDeferredDeepLink" /\ c.pc = "settled" /\ c.outcome.kind = "resolved"
    THEN /\ BagCardinality(calls) < MaxCalls
         /\ \E c \in BagToSet(calls) :
                /\ c.op = "checkForDeferredDeepLink"
                /\ c.pc = "settled"
                /\ c.outcome.kind = "resolved"
                /\ calls' = calls (+) SetToBag({[c EXCEPT !.bridgeCalls = 0]})
         /\ UNCHANGED <<build, harness, configured>>
    ELSE Invoke("checkForDeferredDeepLink", Undefined, Undefined)

checkForDeferredDeepLink == Invoke("checkForDeferredDeepLink", Undefined, Undefined)

resolveLink(url) == Invoke("resolveLink", url, url)

\* The native module settles the promise it returned.
NativeSettle(c, settled) ==
    /\ c.pc = "awaiting"
    /\ c.native = Pending
    /\ calls' = Replace(c, [c EXCEPT !.native = settled])
    /\ UNCHANGED <<build, harness, configured>>

NativeResolve(c, v) ==
    /\ c.op = "configure" => v = Undefined
    /\ NativeSettle(c, Resolved(v))

NativeReject(c, e) == NativeSettle(c, Rejected(e))

\* What the operation's promise settles with, given what the native one did.
Settle(tbl, op, native) ==
    CASE op = "configure" -> ConfigureSettle(tbl, native)
      [] op = "checkForDeferredDeepLink" -> ResultSettle(tbl, native, TRUE)
      [] op = "resolveLink" -> ResultSettle(tbl, native, FALSE)

\* A continuation that runs only when the native promise resolved: a
\* rejection is never handled and the operation's promise stays pending.
ResumeOnResolveOnly(c) ==
    /\ c.pc = "awaiting"
    /\ c.native.kind = "resolved"
    /\ calls' = Replace(c, [c EXCEPT !.pc = "settled",
                                     !.outcome = Settle(table, c.op, c.native)])
    /\ UNCHANGED <<build, harness, configured>>

\* A continuation that settles with the native answer of whichever call was
\* answered, as a facade keeping the last answer in a field would.
ResumeCrossed(c) ==
    /\ c.pc = "awaiting"
    /\ c.native # Pending
    /\ \E d \in BagToSet(calls) :
           /\ d.native # Pending
           /\ calls' = Replace(c, [c EXCEPT !.pc = "settled",
                                            !.outcome = Settle(table, c.op, d.native)])
    /\ UNCHANGED <<build, harness, configured>>

\* The continuation after the await.
Resume(c) ==
    /\ c.pc = "awaiting"
    /\ c.native # Pending
    /\ calls' = Replace(c, [c EXCEPT !.pc = "settled",
                                     !.outcome = Settle(table, c.op, c.native)])
    /\ UNCHANGED <<build, harness, configured>>

NoNormalizer == [t |-> "none"]

\* The result normalizer's harness at rest.
ParserIdle ==
    /\ pin = Undefined
    /\ pflag = FALSE
    /\ pout = NoNormalizer
    /\ pagain = NoNormalizer

Init ==
    /\ calls = EmptyBag
    /\ table \in {"v11", "v7"}
    /\ platform = "interface"
    /\ configured = FALSE
    /\ ncode = Undefined
    /\ nmsg = Undefined
    /\ nerr = NoNormalizer
    /\ nerr7 = NoNormalizer
    /\ ParserIdle

Next ==
    \/ \E config \in Configs : configure(config)
    \/ checkForDeferredDeepLink
    \/ \E url \in Urls : resolveLink(url)
    \/ \E c \in BagToSet(calls), v \in Payloads : NativeResolve(c, v)
    \/ \E c \in BagToSet(calls), e \in Rejections : NativeReject(c, e)
    \/ \E c \in BagToSet(calls) : Resume(c)

Spec == Init /\ [][Next]_vars

(***************************************************************************)
(* The error normalizer on its own: a (code, message) pair is drawn and    *)
(* each generation of fromNativeError is applied to it.                    *)
(***************************************************************************)
\* The codes of the fixed table of native error codes.
TableCodes ==
    { "NOT_CONFIGURED", "INVALID_API_KEY", "SIMULATOR", "NETWORK_ERROR", "SERVER_ERROR",
      "INVALID_RESPONSE", "NO_MATCH", "INSTALL_REFERRER_UNAVAILABLE",
      "INSTALL_REFERRER_TIMEOUT", "INVALID_URL" }

\* The codes a typed error may carry.
Taxonomy == TableCodes \cup {"UNKNOWN"}

NativeCodes ==
    { Str(c) : c \in TableCodes }
    \cup { Str("INVALID_INTENT"), Str("UNKNOWN"), Str("E_OTHER"), Str("not_configured"),
           Str(""), Undefined, Null, Num(42) }

NativeMessages == { Undefined, Null, Str(""), Str("boom"), Str("timed out") }

\* The error object the native module rejects with for a (code, message)
\* pair: a property the native side left out is absent from the object.
NativeError(code, message) ==
    CASE code = Undefined /\ message = Undefined -> Obj(<<>>)
      [] code = Undefined /\ message # Undefined -> Obj([message |-> message])
      [] code # Undefined /\ message = Undefined -> Obj([code |-> code])
      [] OTHER -> Obj([code |-> code, message |-> message])

ErrInit ==
    /\ calls = EmptyBag
    /\ table \in {"v11", "v7"}
    /\ platform = "interface"
    /\ configured = FALSE
    /\ ncode \in NativeCodes
    /\ nmsg \in NativeMessages
    /\ nerr = NoNormalizer
    /\ nerr7 = NoNormalizer
    /\ ParserIdle

Normalize ==
    /\ nerr = NoNormalizer
    /\ nerr' = fromNativeError(ncode, nmsg)
    /\ UNCHANGED <<calls, build, configured, ncode, nmsg, nerr7, parser>>

NormalizeV7 ==
    /\ nerr7 = NoNormalizer
    /\ nerr7' = fromNativeErrorV7(ncode, nmsg)
    /\ UNCHANGED <<calls, build, configured, ncode, nmsg, nerr, parser>>

\* The native module rejects a facade call with the drawn pair.
NativeRejectDrawn(c) == NativeReject(c, NativeError(ncode, nmsg))

ErrNext ==
    \/ Normalize
    \/ NormalizeV7
    \/ configure(Obj([clientAPIKey |-> Str("k")]))
    \/ checkForDeferredDeepLink
    \/ \E url \in Urls : resolveLink(url)
    \/ \E c \in BagToSet(calls) : NativeRejectDrawn(c)
    \/ \E c \in BagToSet(calls) : Resume(c)

ErrSpec == ErrInit /\ [][ErrNext]_vars

(***************************************************************************)
(* Claims about the error normalizer (checked under ErrSpec).              *)
(***************************************************************************)
Normalized == nerr # NoNormalizer

\* The codes fromNativeError recognizes: the fixed table and its synonym.
Recognized == { Str(c) : c \in TableCodes } \cup { Str("INVALID_INTENT") }

\* C3: for every code of the fixed table and every message, fromNativeError
\* returns a typed error carrying that same code; INVALID_INTENT is returned
\* as INVALID_URL.
C3_TableCodePreserved ==
    Normalized =>
        /\ ncode \in { Str(c) : c \in TableCodes } =>
               nerr.t = "DynalinksError" /\ nerr.code = ncode.v
        /\ ncode = Str("INVALID_INTENT") =>
               nerr.t = "DynalinksError" /\ nerr.code = "INVALID_URL"

C3_Witness ==
    /\ Normalized
    /\ ncode = Str("INVALID_INTENT")
    /\ nmsg = Str("boom")
    /\ nerr.code = "INVALID_URL"

\* The message of the UNKNOWN variant for a native message.
UnknownMessage(message) ==
    IF message \in {Undefined, Null, Str("")} THEN "Unknown error occurred" ELSE message.v

\* C4: a code outside the fixed table, or no code at all, gives the UNKNOWN
\* variant with the native message, or with the placeholder "Unknown error
\* occurred" when the native message is absent or empty; and so does a facade
\* call that the native module rejects with an error carrying no code.
C4_UnknownFallback ==
    /\ Normalized /\ ncode \notin Recognized =>
           nerr = [t |-> "DynalinksError", code |-> "UNKNOWN",
                   message |-> UnknownMessage(nmsg)]
    /\ \A c \in BagToSet(calls) :
           /\ c.pc = "settled"
           /\ c.native.kind = "rejected"
           /\ c.native.value.t = "object"
           /\ "code" \notin DOMAIN c.native.value.f
           => c.outcome = Rejected([t |-> "DynalinksError", code |-> "UNKNOWN",
                                    message |-> UnknownMessage(Get(c.native.value, "message"))])

C4_Witness ==
    /\ Normalized
    /\ ncode = Undefined
    /\ nmsg = Str("")
    /\ nerr.message = "Unknown error occurred"
    /\ \E c \in BagToSet(calls) :
           /\ c.op = "configure"
           /\ c.pc = "settled"
           /\ c.native = Rejected(Obj([message |-> Str("")]))
           /\ c.outcome.value.code = "UNKNOWN"

\* C5: fromNativeError is total, and the code of what it returns is one of
\* the eleven codes of the taxonomy whatever code came in.
C5_TotalIntoTaxonomy ==
    /\ ~Normalized => ENABLED Normalize
    /\ Normalized => nerr.t = "DynalinksError" /\ nerr.code \in Taxonomy

C5_Witness ==
    /\ Normalized
    /\ ncode = Str("E_OTHER")
    /\ nmsg = Undefined
    /\ nerr.code = "UNKNOWN"

\* The variants that accept a dynamic message, with their default messages.
DynamicDefault ==
    [INVALID_API_KEY |-> "Invalid API key format",
     NETWORK_ERROR |-> "Network request failed",
     SERVER_ERROR |-> "Server error",
     INVALID_URL |-> "Invalid URL format"]

\* C6: a variant that accepts a dynamic message carries the native message
\* verbatim when there is one, and its own default when there is none.
C6_DynamicMessage ==
    Normalized /\ nerr.code \in DOMAIN DynamicDefault =>
        /\ nmsg.t = "string" => nerr.message = nmsg.v
        /\ nmsg = Undefined => nerr.message = DynamicDefault[nerr.code]

C6_Witness ==
    /\ Normalized
    /\ ncode = Str("SERVER_ERROR")
    /\ nmsg = Undefined
    /\ nerr.message = "Server error"

\* The variants with no dynamic content.
StaticCodes ==
    { "NOT_CONFIGURED", "SIMULATOR", "INVALID_RESPONSE", "NO_MATCH",
      "INSTALL_REFERRER_UNAVAILABLE", "INSTALL_REFERRER_TIMEOUT" }

\* C7: a variant with no dynamic content is the same typed error, code and
\* message, for every native message.
C7_StaticMessage ==
    Normalized /\ nerr.code \in StaticCodes =>
        \A m \in NativeMessages :
            /\ fromNativeError(ncode, m).code = nerr.code
            /\ fromNativeError(ncode, m).message = nerr.message

C7_Witness ==
    /\ Normalized
    /\ ncode = Str("NOT_CONFIGURED")
    /\ nmsg = Str("boom")
    /\ nerr.message = "Dynalinks SDK has not been configured. Call Dynalinks.configure() first."

(***************************************************************************)
(* Claims about the facade against its native module interface (checked    *)
(* under Spec).                                                            *)
(***************************************************************************)
Made == BagToSet(calls)

\* The shape of a normalized DeepLinkResult.
IsDeepLinkResult(v) ==
    /\ v.t = "object"
    /\ DOMAIN v.f = {"matched", "confidence", "matchScore", "link", "isDeferred"}
    /\ v.f.isDeferred.t = "boolean"

IsTypedError(e) == e.t = "DynalinksError" /\ e.code \in Taxonomy

\* C1: whatever the native module does, a settled facade promise is resolved
\* with a normalized value or rejected with a DynalinksError of the taxonomy.
C1_OnlyTypedErrorsEscape ==
    \A c \in Made :
        c.pc = "settled" =>
            \/ /\ c.outcome.kind = "resolved"
               /\ IF c.op = "configure"
                  THEN c.outcome.value = Undefined
                  ELSE IsDeepLinkResult(c.outcome.value)
            \/ /\ c.outcome.kind = "rejected"
               /\ IsTypedError(c.outcome.value)

\* String.prototype.trim leaves nothing of s.
RECURSIVE IsBlank(_)
IsBlank(s) ==
    IF Len(s) = 0 THEN TRUE ELSE SubSeq(s, 1, 1) = " " /\ IsBlank(SubSeq(s, 2, Len(s)))

\* The configuration has no usable clientAPIKey: absent, empty or blank.
NoApiKey(config) ==
    \/ Get(config, "clientAPIKey").t # "string"
    \/ IsBlank(Get(config, "clientAPIKey").v)

\* C2: configure with an absent, empty or blank clientAPIKey makes no call
\* into the native module and rejects with INVALID_API_KEY.
C2_BlankKeyRejectedLocally ==
    \A c \in Made :
        c.op = "configure" /\ NoApiKey(c.arg) =>
            /\ c.bridgeCalls = 0
            /\ c.pc = "settled" =>
                   /\ c.outcome.kind = "rejected"
                   /\ c.outcome.value.t = "DynalinksError"
                   /\ c.outcome.value.code = "INVALID_API_KEY"

\* C8: the payload configure forwards has the supplied logLevel or "error",
\* the supplied allowSimulator or false, and the supplied clientAPIKey.
C8_ConfigureDefaults ==
    \A c \in Made :
        c.op = "configure" =>
            LET cfg == c.arg.f
                fw == c.forwarded.f
            IN  /\ fw.logLevel = IF "logLevel" \in DOMAIN cfg
                                 THEN cfg.logLevel ELSE Str("error")
                /\ fw.allowSimulator = IF "allowSimulator" \in DOMAIN cfg
                                       THEN cfg.allowSimulator ELSE Bool(FALSE)
                /\ "clientAPIKey" \in DOMAIN cfg => fw.clientAPIKey = cfg.clientAPIKey

C8_Witness ==
    \E c \in Made :
        /\ c.op = "configure"
        /\ c.arg = Obj([clientAPIKey |-> Str("k")])
        /\ c.forwarded.f.logLevel = Str("error")
        /\ c.forwarded.f.allowSimulator = Bool(FALSE)
        /\ c.forwarded.f.clientAPIKey = Str("k")

\* C10: a result of checkForDeferredDeepLink has isDeferred = true and a
\* result of resolveLink has isDeferred = false, whatever the payload says.
C10_IsDeferredFromCaller ==
    \A c \in Made :
        c.pc = "settled" /\ c.outcome.kind = "resolved" =>
            /\ c.op = "checkForDeferredDeepLink" => c.outcome.value.f.isDeferred = Bool(TRUE)
            /\ c.op = "resolveLink" => c.outcome.value.f.isDeferred = Bool(FALSE)

C10_Witness ==
    \E c \in Made :
        /\ c.op = "resolveLink"
        /\ c.pc = "settled"
        /\ c.native.kind = "resolved"
        /\ Get(c.native.value, "is_deferred") = Bool(TRUE)
        /\ Get(c.native.value, "isDeferred") = Bool(TRUE)
        /\ c.outcome.kind = "resolved"
        /\ c.outcome.value.f.isDeferred = Bool(FALSE)

(***************************************************************************)
(* The native modules (ExpoDynalinksSdkModule: Android, iOS, and the older *)
(* iOS one) and the external SDK behind them.                              *)
(***************************************************************************)
Platforms == {"android", "ios", "iosLegacy"}

\* config["k"] as? String: the string, or nil.
AsString(v) == IF v.t = "string" THEN v ELSE Null

\* config["k"] as? Bool ?? false
AsBoolOrFalse(v) == IF v.t = "boolean" THEN v.v ELSE FALSE

\* The logLevel switch: an unknown level string falls back to error.
LogLevelOf(v) ==
    IF v.t = "string" /\ v.v \in {"none", "error", "warning", "info", "debug"}
    THEN v.v ELSE "error"

\* The first position at or after i where "://" starts in s, or 0.
RECURSIVE SchemeEnd(_, _)
SchemeEnd(s, i) ==
    IF i + 2 > Len(s) THEN 0
    ELSE IF SubSeq(s, i, i + 2) = "://" THEN i
    ELSE SchemeEnd(s, i + 1)

\* android.net.Uri.parse(s): scheme and host are both non-empty.
HasSchemeAndHost(s) ==
    LET e == SchemeEnd(s, 1)
    IN  /\ e > 1
        /\ e + 3 <= Len(s)
        /\ SubSeq(s, e + 3, e + 3) # "/"

RECURSIVE HasSpace(_)
HasSpace(s) ==
    IF Len(s) = 0 THEN FALSE ELSE SubSeq(s, 1, 1) = " " \/ HasSpace(SubSeq(s, 2, Len(s)))

\* URL(string: s) is non-nil: s is not empty and holds no character a URL
\* cannot hold.
UrlParses(s) == Len(s) > 0 /\ ~HasSpace(s)

\* trimmingCharacters(in: .whitespacesAndNewlines)
RECURSIVE TrimLeft(_)
TrimLeft(s) ==
    IF Len(s) > 0 /\ SubSeq(s, 1, 1) = " " THEN TrimLeft(SubSeq(s, 2, Len(s))) ELSE s

RECURSIVE TrimRight(_)
TrimRight(s) ==
    IF Len(s) > 0 /\ SubSeq(s, Len(s), Len(s)) = " "
    THEN TrimRight(SubSeq(s, 1, Len(s) - 1)) ELSE s

Trim(s) == TrimRight(TrimLeft(s))

\* An exception of the native module as JavaScript sees the rejection.
CodedException(code, message) == Obj([code |-> Str(code), message |-> Str(message)])

\* A Swift error that is no Expo Exception, and a CodedException built from a
\* message alone: Expo gives the rejection a code of its own, none of the
\* facade's table.
UncodedException(message) == Obj([code |-> Str("ERR_UNEXPECTED"), message |-> Str(message)])

\* The older iOS module's built-in base URL.
LegacyBaseURL == "https://dynalinks.app/api/v1"

(* The external SDK's errors: a variant, the text it carries (message,      *)
(* errorDescription or associated msg; Null for none) and an HTTP status.   *)
SdkError(variant, text) == [variant |-> variant, text |-> text, status |-> 500]

\* A convertError (Android) that names the Emulator variant after itself
\* and not after the facade's SIMULATOR.
AndroidConvertErrorEmulator(e) ==
    CodedException(
        CASE e.variant = "NotConfigured" -> "NOT_CONFIGURED"
          [] e.variant = "InvalidAPIKey" -> "INVALID_API_KEY"
          [] e.variant = "Emulator" -> "EMULATOR"
          [] e.variant = "InvalidIntent" -> "INVALID_URL"
          [] e.variant = "NetworkError" -> "NETWORK_ERROR"
          [] e.variant = "InvalidResponse" -> "INVALID_RESPONSE"
          [] e.variant = "ServerError" -> "SERVER_ERROR"
          [] e.variant = "NoMatch" -> "NO_MATCH"
          [] e.variant = "InstallReferrerUnavailable" -> "INSTALL_REFERRER_UNAVAILABLE"
          [] e.variant = "InstallReferrerTimeout" -> "INSTALL_REFERRER_TIMEOUT",
        IF e.text = Null THEN "Unknown error" ELSE e.text.v)

\* convertError (Android): the code by variant, error.message ?: "Unknown error".
AndroidConvertError(e) ==
    CodedException(
        CASE e.variant = "NotConfigured" -> "NOT_CONFIGURED"
          [] e.variant = "InvalidAPIKey" -> "INVALID_API_KEY"
          [] e.variant = "Emulator" -> "SIMULATOR"
          [] e.variant = "InvalidIntent" -> "INVALID_URL"
          [] e.variant = "NetworkError" -> "NETWORK_ERROR"
          [] e.variant = "InvalidResponse" -> "INVALID_RESPONSE"
          [] e.variant = "ServerError" -> "SERVER_ERROR"
          [] e.variant = "NoMatch" -> "NO_MATCH"
          [] e.variant = "InstallReferrerUnavailable" -> "INSTALL_REFERRER_UNAVAILABLE"
          [] e.variant = "InstallReferrerTimeout" -> "INSTALL_REFERRER_TIMEOUT",
        IF e.text = Null THEN "Unknown error" ELSE e.text.v)

\* a ?? b on an optional string
OrElse(text, default) == IF text = Null THEN default ELSE text.v

\* A convertError (iOS) without the notConfigured case.
IosConvertErrorNoGate(e) ==
    CASE e.variant = "NotConfigured" ->
            CodedException("UNKNOWN", OrElse(e.text, "SDK not configured"))
      [] e.variant = "InvalidAPIKey" ->
            CodedException("INVALID_API_KEY", e.text.v)
      [] e.variant = "Emulator" ->
            CodedException("SIMULATOR", OrElse(e.text, "Not available on simulator"))
      [] e.variant = "NetworkError" ->
            CodedException("NETWORK_ERROR", OrElse(e.text, "Network error"))
      [] e.variant = "InvalidResponse" ->
            CodedException("INVALID_RESPONSE", OrElse(e.text, "Invalid response"))
      [] e.variant = "ServerError" ->
            CodedException("SERVER_ERROR",
                           OrElse(e.text, "Server error: " \o IntToString(e.status)))
      [] e.variant = "NoMatch" ->
            CodedException("NO_MATCH", OrElse(e.text, "No match"))

\* convertError (iOS, both modules).
IosConvertError(e) ==
    CASE e.variant = "NotConfigured" ->
            CodedException("NOT_CONFIGURED", OrElse(e.text, "SDK not configured"))
      [] e.variant = "InvalidAPIKey" ->
            CodedException("INVALID_API_KEY", e.text.v)
      [] e.variant = "Emulator" ->
            CodedException("SIMULATOR", OrElse(e.text, "Not available on simulator"))
      [] e.variant = "NetworkError" ->
            CodedException("NETWORK_ERROR", OrElse(e.text, "Network error"))
      [] e.variant = "InvalidResponse" ->
            CodedException("INVALID_RESPONSE", OrElse(e.text, "Invalid response"))
      [] e.variant = "ServerError" ->
            CodedException("SERVER_ERROR",
                           OrElse(e.text, "Server error: " \o IntToString(e.status)))
      [] e.variant = "NoMatch" ->
            CodedException("NO_MATCH", OrElse(e.text, "No match"))

convertError(plat, e) ==
    IF plat = "android" THEN AndroidConvertError(e) ELSE IosConvertError(e)

\* String.lowercase() of an enum name.
RECURSIVE Lowercase(_)
Lowercase(s) ==
    IF Len(s) = 0 THEN ""
    ELSE LET ch == SubSeq(s, 1, 1)
             up == "ABCDEFGHIJKLMNOPQRSTUVWXYZ"
             lo == "abcdefghijklmnopqrstuvwxyz"
             at == { i \in 1..26 : SubSeq(up, i, i) = ch }
         IN  (IF at = {} THEN ch ELSE LET i == CHOOSE i \in at : TRUE IN SubSeq(lo, i, i))
             \o Lowercase(SubSeq(s, 2, Len(s)))

\* The keys of encodeLinkData, native key by SDK property.
LinkKeys ==
    [id |-> "id", name |-> "name", path |-> "path", shortened_path |-> "shortenedPath",
     url |-> "url", full_url |-> "fullUrl", deep_link_value |-> "deepLinkValue",
     ios_fallback_url |-> "iosFallbackUrl", android_fallback_url |-> "androidFallbackUrl",
     enable_forced_redirect |-> "enableForcedRedirect", social_title |-> "socialTitle",
     social_description |-> "socialDescription", social_image_url |-> "socialImageUrl",
     clicks |-> "clicks"]

\* encodeLinkData: Android drops the null values (filterValues), the iOS
\* modules keep them (a [String: Any?] whose nil arrives as null), and the
\* newer iOS module adds ios_deferred_deep_linking_enabled.
encodeLinkData(plat, link) ==
    CASE plat = "android" ->
            Obj([k \in { k \in DOMAIN LinkKeys : link[LinkKeys[k]] # Null } |->
                    link[LinkKeys[k]]])
      [] plat = "ios" ->
            Obj([k \in DOMAIN LinkKeys \cup {"ios_deferred_deep_linking_enabled"} |->
                    IF k = "ios_deferred_deep_linking_enabled"
                    THEN link.iosDeferredDeepLinkingEnabled
                    ELSE link[LinkKeys[k]]])
      [] plat = "iosLegacy" ->
            Obj([k \in DOMAIN LinkKeys |-> link[LinkKeys[k]]])

\* What the native key holds in the encoded result, if the SDK value is there.
Entry(key, present, value) ==
    IF present THEN [k \in {key} |-> value] ELSE <<>>

\* encodeResult: matched and is_deferred always, the rest when non-null.
encodeResult(plat, result, isDeferred) ==
    Obj([matched |-> Bool(result.matched), is_deferred |-> Bool(isDeferred)]
        @@ Entry("confidence", result.confidence # Null,
                 IF plat = "android" /\ result.confidence # Null
                 THEN Str(Lowercase(result.confidence.v)) ELSE result.confidence)
        @@ Entry("match_score", result.matchScore # Null, result.matchScore)
        @@ Entry("link", result.link # Null,
                 IF result.link # Null THEN encodeLinkData(plat, result.link) ELSE Null))

(* The external SDK.  What it answers is its own business: any result or   *)
(* any of its error variants; it answers NotConfigured until its configure *)
(* has succeeded.                                                          *)
SdkLink ==
    [id |-> Str("abc"), name |-> Null, path |-> Null, shortenedPath |-> Null,
     url |-> Null, fullUrl |-> Str("https://app.example/p/42"),
     deepLinkValue |-> Str("product/42"), iosDeferredDeepLinkingEnabled |-> Bool(TRUE),
     iosFallbackUrl |-> Null, androidFallbackUrl |-> Null,
     enableForcedRedirect |-> Bool(FALSE), socialTitle |-> Null,
     socialDescription |-> Null, socialImageUrl |-> Null, clicks |-> Num(3)]

SdkResults(plat) ==
    { [matched |-> FALSE, confidence |-> Null, matchScore |-> Null, link |-> Null],
      [matched |-> TRUE,
       confidence |-> Str(IF plat = "android" THEN "HIGH" ELSE "high"),
       matchScore |-> Num(87), link |-> SdkLink] }

\* The SDK's configure returning normally.
SdkOk == [ok |-> TRUE]

\* Something the SDK throws that is no DynalinksError of its own.
SdkOtherFailure == SdkError("Other", Str("connection lost"))

SdkConfigureErrors == { SdkError("InvalidAPIKey", Str("API key rejected")), SdkOtherFailure }

SdkLinkErrors(plat) ==
    { SdkError("Emulator", Str("not on emulator")),
      SdkError("NetworkError", Str("offline")),
      SdkError("ServerError", Null),
      SdkError("InvalidResponse", Null),
      SdkError("NoMatch", Str("no match")),
      SdkOtherFailure }
    \cup IF plat = "android"
         THEN { SdkError("InvalidIntent", Str("no data in intent")),
                SdkError("InstallReferrerUnavailable", Str("no referrer")),
                SdkError("InstallReferrerTimeout", Null) }
         ELSE {}

IsSdkError(out) == "variant" \in DOMAIN out

\* catch (e: DynalinksError) / catch let error as DynalinksError
IsDynalinksError(e) == e.variant # "Other"

\* What a native function rejects with when the SDK threw e: convertError
\* for a DynalinksError; for anything else the catch-all of the newer iOS
\* module and of the Android resolveLink, and elsewhere the error as it is.
Caught(plat, op, e) ==
    IF IsDynalinksError(e) THEN convertError(plat, e)
    ELSE IF plat = "ios" \/ (plat = "android" /\ op = "resolveLink")
    THEN CodedException("UNKNOWN", "Unexpected error: " \o e.text.v)
    ELSE UncodedException(e.text.v)

\* What the SDK answers to checkForDeferredDeepLink / handleAppLink /
\* handleUniversalLink when it would answer out once configured.
SdkAnswer(isConfigured, out) ==
    IF isConfigured THEN out ELSE SdkError("NotConfigured", Str("SDK not configured"))

(* A native operation's effect: what its promise settles with, what it      *)
(* handed to the SDK, and whether the SDK is configured afterwards.         *)
Effect(settle, sdkCall, isConfigured) ==
    [settle |-> settle, sdkCall |-> sdkCall, configured |-> isConfigured]

Throws(exception) == Effect(Rejected(exception), NoSdkCall, configured)

\* Dynalinks.configure(...) of the SDK, called with the given arguments.
SdkConfigure(plat, key, baseURL, config, out) ==
    LET args == [op |-> "configure", clientAPIKey |-> key, baseURL |-> baseURL,
                 logLevel |-> LogLevelOf(Get(config, "logLevel")),
                 allowSimulator |-> AsBoolOrFalse(Get(config, "allowSimulator")),
                 answer |-> out]
    IN  IF IsSdkError(out)
        THEN Effect(Rejected(Caught(plat, "configure", out)), args, configured)
        ELSE Effect(Resolved(Undefined), args, TRUE)

\* configure (Android).
AndroidConfigure(config, context, out) ==
    LET key == AsString(Get(config, "clientAPIKey"))
        base == AsString(Get(config, "baseURL"))
        baseURLString == IF base = Null \/ IsBlank(base.v) THEN Null ELSE base
    IN  IF ~context THEN Throws(UncodedException("Context not available"))
        ELSE IF key = Null \/ IsBlank(key.v)
        THEN Throws(CodedException("INVALID_API_KEY", "Missing or empty clientAPIKey"))
        ELSE IF baseURLString # Null
        THEN IF ~HasSchemeAndHost(baseURLString.v)
             THEN Throws(CodedException("INVALID_CONFIG", "Invalid baseURL format"))
             ELSE SdkConfigure("android", key.v, baseURLString, config, out)
        ELSE SdkConfigure("android", key.v, Undefined, config, out)

\* configure (iOS).
IosConfigure(config, out) ==
    LET raw == AsString(Get(config, "clientAPIKey"))
        base == AsString(Get(config, "baseURL"))
    IN  IF raw = Null
        THEN Throws(CodedException("INVALID_API_KEY", "Missing clientAPIKey in configuration"))
        ELSE IF Trim(raw.v) = ""
        THEN Throws(CodedException("INVALID_API_KEY",
                "Invalid clientAPIKey in configuration: API key must be a non-empty string"))
        ELSE IF base # Null /\ Trim(base.v) # ""
        THEN IF ~UrlParses(Trim(base.v))
             THEN Throws(CodedException("UNKNOWN",
                     "Unexpected error: Invalid baseURL in configuration"))
             ELSE SdkConfigure("ios", Trim(raw.v), Str(Trim(base.v)), config, out)
        ELSE SdkConfigure("ios", Trim(raw.v), Undefined, config, out)

\* configure (iOS, older module).
IosLegacyConfigure(config, out) ==
    LET key == AsString(Get(config, "clientAPIKey"))
        base == AsString(Get(config, "baseURL"))
        baseURL == IF base # Null /\ UrlParses(base.v) THEN base ELSE Str(LegacyBaseURL)
    IN  IF key = Null
        THEN Throws(UncodedException("missingAPIKey"))
        ELSE SdkConfigure("iosLegacy", key.v, baseURL, config, out)

\* checkForDeferredDeepLink (all three modules).
NativeCheck(plat, out) ==
    LET answer == SdkAnswer(configured, out)
        args == [op |-> "checkForDeferredDeepLink", answer |-> answer]
    IN  IF IsSdkError(answer)
        THEN Effect(Rejected(Caught(plat, "checkForDeferredDeepLink", answer)), args, configured)
        ELSE Effect(Resolved(encodeResult(plat, answer, TRUE)), args, configured)

\* The SDK's link resolution, called with a parsed URL.
SdkResolve(plat, url, out) ==
    LET answer == SdkAnswer(configured, out)
        args == [op |-> "resolveLink", url |-> url, answer |-> answer]
    IN  IF IsSdkError(answer)
        THEN Effect(Rejected(Caught(plat, "resolveLink", answer)), args, configured)
        ELSE Effect(Resolved(encodeResult(plat, answer, FALSE)), args, configured)

\* resolveLink (Android, iOS, older iOS).
NativeResolveLink(plat, url, out) ==
    CASE plat = "android" ->
            IF ~HasSchemeAndHost(url.v)
            THEN Throws(CodedException("INVALID_URL", "URL must have a valid scheme and host"))
            ELSE SdkResolve(plat, url, out)
      [] plat = "ios" ->
            IF ~UrlParses(url.v)
            THEN Throws(CodedException("INVALID_URL", "Invalid URL format"))
            ELSE SdkResolve(plat, url, out)
      [] plat = "iosLegacy" ->
            IF ~UrlParses(url.v)
            THEN Throws(UncodedException("invalidURL"))
            ELSE SdkResolve(plat, url, out)

\* The native module runs a call it received and settles its promise.
NativeRun(c, effect) ==
    /\ c.pc = "awaiting"
    /\ c.native = Pending
    /\ calls' = Replace(c, [c EXCEPT !.native = effect.settle, !.sdkCall = effect.sdkCall])
    /\ configured' = effect.configured
    /\ UNCHANGED <<build, harness>>

ExpoConfigure(c, context, out) ==
    /\ c.op = "configure"
    /\ NativeRun(c, CASE platform = "android" -> AndroidConfigure(c.forwarded, context, out)
                      [] platform = "ios" -> IosConfigure(c.forwarded, out)
                      [] platform = "iosLegacy" -> IosLegacyConfigure(c.forwarded, out))

ExpoCheckForDeferredDeepLink(c, out) ==
    /\ c.op = "checkForDeferredDeepLink"
    /\ NativeRun(c, NativeCheck(platform, out))

ExpoResolveLink(c, out) ==
    /\ c.op = "resolveLink"
    /\ NativeRun(c, NativeResolveLink(platform, c.forwarded, out))

NativeInit ==
    /\ calls = EmptyBag
    /\ table \in {"v11", "v7"}
    /\ platform \in Platforms
    /\ configured = FALSE
    /\ ncode = Undefined
    /\ nmsg = Undefined
    /\ nerr = NoNormalizer
    /\ nerr7 = NoNormalizer
    /\ ParserIdle

\* The URLs resolveLink is called with: those of Urls and one without a scheme.
NativeUrls == Urls \cup { Str("app.example/p") }

NativeNext ==
    \/ \E config \in Configs : configure(config)
    \/ checkForDeferredDeepLink
    \/ \E url \in NativeUrls : resolveLink(url)
    \/ \E c \in BagToSet(calls), context \in BOOLEAN,
          out \in {SdkOk} \cup SdkConfigureErrors :
            ExpoConfigure(c, context, out)
    \/ \E c \in BagToSet(calls), out \in SdkResults(platform) \cup SdkLinkErrors(platform) :
            ExpoCheckForDeferredDeepLink(c, out)
    \/ \E c \in BagToSet(calls), out \in SdkResults(platform) \cup SdkLinkErrors(platform) :
            ExpoResolveLink(c, out)
    \/ \E c \in BagToSet(calls) : Resume(c)

NativeSpec == NativeInit /\ [][NativeNext]_vars

(***************************************************************************)
(* Claims about configure through the native modules (checked under        *)
(* NativeSpec).                                                            *)
(***************************************************************************)
\* C9: when configure is called without a baseURL, the forwarded payload
\* has no baseURL entry and the native module configures the SDK without a
\* base URL, leaving it to the SDK's built-in default.
C9_BaseUrlOmitted ==
    \A c \in Made :
        c.op = "configure" /\ "baseURL" \notin DOMAIN c.arg.f =>
            /\ "baseURL" \notin DOMAIN c.forwarded.f
            /\ c.sdkCall.op = "configure" => c.sdkCall.baseURL = Undefined

\* The two halves of C9 on their own.
C9_PayloadHasNoEntry ==
    \A c \in Made :
        c.op = "configure" /\ "baseURL" \notin DOMAIN c.arg.f =>
            "baseURL" \notin DOMAIN c.forwarded.f

C9_SdkKeepsItsDefault ==
    \A c \in Made :
        c.op = "configure" /\ "baseURL" \notin DOMAIN c.arg.f /\ c.sdkCall.op = "configure" =>
            c.sdkCall.baseURL = Undefined

\* What does hold: the newer modules leave the base URL to the SDK.
C9_NewerModulesKeepDefault ==
    platform # "iosLegacy" => C9_SdkKeepsItsDefault

(***************************************************************************)
(* The result normalizer on its own: a payload and a flag are drawn,       *)
(* parseResult is applied to them, and then once more to a payload made of *)
(* its own output.                                                         *)
(***************************************************************************)
\* The native key each LinkData field is read from.
NativeKey ==
    [id |-> "id", name |-> "name", path |-> "path", shortenedPath |-> "shortened_path",
     url |-> "url", fullUrl |-> "full_url", deepLinkValue |-> "deep_link_value",
     iosFallbackUrl |-> "ios_fallback_url", androidFallbackUrl |-> "android_fallback_url",
     enableForcedRedirect |-> "enable_forced_redirect", socialTitle |-> "social_title",
     socialDescription |-> "social_description", socialImageUrl |-> "social_image_url",
     clicks |-> "clicks"]

LinkFields == DOMAIN NativeKey

NativeKeys == { NativeKey[f] : f \in LinkFields }

\* A link object carrying every native key, each with a value of its own,
\* and the key the newer iOS module adds.
FullLink ==
    Obj([k \in NativeKeys \cup {"ios_deferred_deep_linking_enabled"} |->
            CASE k = "clicks" -> Num(3)
              [] k = "enable_forced_redirect" -> Bool(FALSE)
              [] k = "ios_deferred_deep_linking_enabled" -> Bool(TRUE)
              [] OTHER -> Str("value of " \o k)])

\* The keys and values the drawn link objects are made of: two native keys,
\* a key in the normalized spelling, and a key parseResult does not read.
DrawnLinkKeys == {"id", "deep_link_value", "shortenedPath", "ios_deferred_deep_linking_enabled"}

DrawnLinkValues == {Str("abc"), Null, Num(0)}

\* A link object with an id and a deep link value and nothing else.
SparseLink == Obj([id |-> Str("abc"), deep_link_value |-> Str("product/42")])

DrawnLinks ==
    { Obj(f) : f \in UNION { [K -> DrawnLinkValues] : K \in SUBSET DrawnLinkKeys } }
    \cup {FullLink, SparseLink}

\* An object made of the entries that are there: Undefined stands for an
\* entry the object does not have.
Entries(f) == Obj([k \in { k \in DOMAIN f : f[k] # Undefined } |-> f[k]])

\* The payloads drawn: objects with or without each entry, and no object at all.
DrawnPayloads ==
    { Entries([matched |-> m, confidence |-> c, match_score |-> ms, link |-> l]) :
        m \in {Undefined, Bool(TRUE), Bool(FALSE)},
        c \in {Undefined, Str("high"), Str("")},
        ms \in {Undefined, Num(87), Num(0)},
        l \in {Undefined, Null} \cup DrawnLinks }
    \cup {Undefined}

\* return this.parseResult(result, flag), with the TypeError of reading a
\* property of undefined.
ParseOrThrow(nativeResult, flag) ==
    IF ReadThrows(nativeResult) THEN TypeError ELSE parseResult(nativeResult, flag)

\* A payload whose link is a link parseResult returned.
Reapply(out) ==
    IF out = TypeError THEN Undefined
    ELSE Entries([matched |-> out.f.matched, link |-> out.f.link])

ParseInit ==
    /\ calls = EmptyBag
    /\ table = "v11"
    /\ platform = "interface"
    /\ configured = FALSE
    /\ ncode = Undefined
    /\ nmsg = Undefined
    /\ nerr = NoNormalizer
    /\ nerr7 = NoNormalizer
    /\ pin \in DrawnPayloads
    /\ pflag \in BOOLEAN
    /\ pout = NoNormalizer
    /\ pagain = NoNormalizer

Parse ==
    /\ pout = NoNormalizer
    /\ pout' = ParseOrThrow(pin, pflag)
    /\ UNCHANGED <<calls, build, configured, ncode, nmsg, nerr, nerr7, pin, pflag, pagain>>

ParseAgain ==
    /\ pout # NoNormalizer
    /\ pagain = NoNormalizer
    /\ pagain' = ParseOrThrow(Reapply(pout), pflag)
    /\ UNCHANGED <<calls, build, configured, ncode, nmsg, nerr, nerr7, pin, pflag, pout>>

ParseNext == Parse \/ ParseAgain

ParseSpec == ParseInit /\ [][ParseNext]_vars

(***************************************************************************)
(* Claims about the result normalizer (checked under ParseSpec).           *)
(***************************************************************************)
Parsed == pout \notin {NoNormalizer, TypeError}

\* C11: when the payload has a link object, the result's link has exactly
\* the fourteen LinkData fields, each holding what the link object holds
\* under the field's native key; no other key of the link object shows.
C11_LinkMapping ==
    Parsed /\ Get(pin, "link").t = "object" =>
        /\ pout.f.link.t = "object"
        /\ DOMAIN pout.f.link.f = LinkFields
        /\ \A f \in LinkFields :
               pout.f.link.f[f] = Get(Get(pin, "link"), NativeKey[f])

C11_Witness ==
    /\ Parsed
    /\ Get(pin, "link") = FullLink
    /\ pout.f.link.f.fullUrl = Str("value of full_url")
    /\ pout.f.link.f.iosFallbackUrl = Str("value of ios_fallback_url")
    /\ pout.f.link.f.clicks = Num(3)
    /\ "ios_deferred_deep_linking_enabled" \notin DOMAIN pout.f.link.f

\* A field of an object is absent: reading it gives undefined.
Absent(o, k) == Get(o, k) = Undefined

\* C12: a LinkData field whose native key the link object does not have is
\* absent from the result (not null, not "", not 0); the payload
\* {matched: true, link: {id: "abc", deep_link_value: "product/42"}} with
\* isDeferred = false gives id "abc", deepLinkValue "product/42",
\* isDeferred false and every other link field absent.
C12_AbsentStaysAbsent ==
    /\ Parsed /\ Get(pin, "link").t = "object" =>
           \A f \in LinkFields :
               NativeKey[f] \notin DOMAIN Get(pin, "link").f => Absent(pout.f.link, f)
    /\ Parsed /\ pin = Obj([matched |-> Bool(TRUE), link |-> SparseLink]) /\ ~pflag =>
           /\ pout.f.link.f.id = Str("abc")
           /\ pout.f.link.f.deepLinkValue = Str("product/42")
           /\ pout.f.isDeferred = Bool(FALSE)
           /\ \A f \in LinkFields \ {"id", "deepLinkValue"} : Absent(pout.f.link, f)

C12_Witness ==
    /\ Parsed
    /\ pin = Obj([matched |-> Bool(TRUE), link |-> SparseLink])
    /\ ~pflag
    /\ pout.f.link.f.id = Str("abc")
    /\ Absent(pout.f.link, "clicks")
    /\ Absent(pout.f.link, "name")

\* C13: parseResult does not throw on a payload object, whichever optional
\* entries it lacks; matched is false without a matched entry and the
\* payload's matched otherwise; the result has a link exactly when the
\* payload has a link object; and {matched: false} with isDeferred = true
\* gives {matched: false, isDeferred: true}, the rest absent.
C13_TolerantOfMissingEntries ==
    /\ pout = NoNormalizer => ENABLED Parse
    /\ pout # NoNormalizer /\ pin.t = "object" =>
           /\ Parsed
           /\ pout.f.matched = IF "matched" \in DOMAIN pin.f THEN pin.f.matched ELSE Bool(FALSE)
           /\ pout.f.link.t = "object" <=> Get(pin, "link").t = "object"
           /\ Get(pin, "link").t # "object" => Absent(pout, "link")
    /\ pout # NoNormalizer /\ pin = Obj([matched |-> Bool(FALSE)]) /\ pflag =>
           pout = Obj([matched |-> Bool(FALSE), confidence |-> Undefined,
                       matchScore |-> Undefined, link |-> Undefined,
                       isDeferred |-> Bool(TRUE)])

C13_Witness ==
    /\ pin = Obj(<<>>)
    /\ pflag
    /\ Parsed
    /\ pout.f.matched = Bool(FALSE)
    /\ Absent(pout, "link")
    /\ Absent(pout, "confidence")

\* C14: the result's confidence is the payload's confidence and its
\* matchScore the payload's match_score, unchanged when there and absent
\* when not.
C14_MatchFieldsPassThrough ==
    Parsed =>
        /\ pout.f.confidence = Get(pin, "confidence")
        /\ pout.f.matchScore = Get(pin, "match_score")
        /\ "confidence" \notin DOMAIN pin.f => Absent(pout, "confidence")
        /\ "match_score" \notin DOMAIN pin.f => Absent(pout, "matchScore")

C14_Witness ==
    /\ Parsed
    /\ Get(pin, "confidence") = Str("")
    /\ Get(pin, "match_score") = Num(0)
    /\ pout.f.confidence = Str("")
    /\ pout.f.matchScore = Num(0)

\* A link object in the normalized shape with only its id: of the keys
\* parseResult reads it has id and no other.
OnlyIdLink(link) == link.t = "object" /\ DOMAIN link.f \cap NativeKeys = {"id"}

\* A LinkData in which only id is set, to the given value.
OnlyIdSet(link, id) ==
    /\ link.t = "object"
    /\ Get(link, "id") = id
    /\ \A k \in (DOMAIN link.f \cup LinkFields) \ {"id"} : Absent(link, k)

\* C15: a payload whose link is in the normalized shape with only an id is
\* normalized without a throw into a LinkData with only id set, and
\* normalizing that output again gives the same.
C15_NormalizedShapeIsStable ==
    pin # Undefined /\ OnlyIdLink(Get(pin, "link")) =>
        /\ pout # NoNormalizer =>
               Parsed /\ OnlyIdSet(pout.f.link, Get(pin, "link").f.id)
        /\ pagain # NoNormalizer =>
               /\ pagain # TypeError
               /\ OnlyIdSet(pagain.f.link, Get(pin, "link").f.id)
               /\ pagain.f.link = pout.f.link

C15_Witness ==
    /\ Get(pin, "link") = Obj([id |-> Str("abc"), shortenedPath |-> Str("abc")])
    /\ pagain # NoNormalizer
    /\ pagain.f.link.f.id = Str("abc")
    /\ Absent(pagain.f.link, "shortenedPath")

(***************************************************************************)
(* Claims about resolveLink and checkForDeferredDeepLink through the       *)
(* native modules (checked under NativeSpec).                              *)
(***************************************************************************)
\* A URL string no platform's parser accepts: Uri.parse finds no scheme and
\* host in it and URL(string:) gives nil.
Malformed(url) == ~HasSchemeAndHost(url.v) /\ ~UrlParses(url.v)

\* C16: resolveLink with a malformed URL never reaches the SDK's link
\* resolution and rejects with the typed error of code INVALID_URL, on every
\* platform and with either error table.
C16_MalformedUrlRejected ==
    \A c \in Made :
        c.op = "resolveLink" /\ Malformed(c.arg) =>
            /\ c.sdkCall = NoSdkCall
            /\ c.pc = "settled" =>
                   /\ c.outcome.kind = "rejected"
                   /\ c.outcome.value.t = "DynalinksError"
                   /\ c.outcome.value.code = "INVALID_URL"

\* What does hold: the newer modules with the newer table.
C16_NewerGeneration ==
    table = "v11" /\ platform \in {"android", "ios"} => C16_MalformedUrlRejected

\* The SDK is never reached, on any platform and with either table.
C16_SdkNotCalled ==
    \A c \in Made :
        c.op = "resolveLink" /\ Malformed(c.arg) => c.sdkCall = NoSdkCall

\* The platforms do not agree on a URL without a scheme: the Android module
\* rejects it and the iOS modules hand it to the SDK.
C16_SchemelessRejected ==
    \A c \in Made :
        c.op = "resolveLink" /\ ~HasSchemeAndHost(c.arg.v) => c.sdkCall = NoSdkCall

\* A URL string every platform's parser accepts.
WellFormed(url) == HasSchemeAndHost(url.v) /\ UrlParses(url.v)

\* The invocations the SDK's configured state gates.
Gated(c) ==
    \/ c.op = "checkForDeferredDeepLink"
    \/ c.op = "resolveLink" /\ WellFormed(c.arg)

\* The native module rejected the call with the code NOT_CONFIGURED.
RejectedNotConfigured(c) ==
    /\ c.native.kind = "rejected"
    /\ Get(c.native.value, "code") = Str("NOT_CONFIGURED")

\* C17: as long as the SDK's configure has not succeeded, every
\* checkForDeferredDeepLink and every resolveLink with a well-formed URL
\* that the native module has answered is rejected with NOT_CONFIGURED, and
\* its promise rejects with NotConfiguredError and its fixed message; once
\* configure has succeeded, no such call the native module then answers is
\* rejected with NOT_CONFIGURED.
C17_GatedUntilConfigured ==
    /\ [](~configured =>
            \A c \in Made :
                Gated(c) /\ c.native # Pending =>
                    /\ RejectedNotConfigured(c)
                    /\ c.pc = "settled" => c.outcome = Rejected(NotConfiguredError))
    /\ [][configured =>
            \A d \in BagToSet(calls') :
                /\ CopiesIn(d, calls') > CopiesIn(d, calls)
                /\ Gated(d)
                /\ d.native # Pending
                /\ d.pc = "awaiting"
                => ~RejectedNotConfigured(d)]_vars

C17_Witness ==
    /\ ~configured
    /\ \E c \in Made :
           /\ c.op = "configure"
           /\ c.pc = "settled"
           /\ c.outcome.kind = "rejected"
    /\ \E d \in Made :
           /\ d.op = "resolveLink"
           /\ d.sdkCall.op = "resolveLink"
           /\ d.pc = "settled"
           /\ d.outcome.value.code = "NOT_CONFIGURED"
           /\ d.outcome.value.message =
                  "Dynalinks SDK has not been configured. Call Dynalinks.configure() first."

(***************************************************************************)
(* Claims about how the facade runs its invocations (checked under Spec).  *)
(***************************************************************************)
\* The calls made into DynalinksModule so far, over all invocations.
RECURSIVE BridgeCallsOf(_)
BridgeCallsOf(b) ==
    IF b = EmptyBag THEN 0
    ELSE LET c == CHOOSE c \in BagToSet(b) : TRUE
         IN  c.bridgeCalls + BridgeCallsOf(b (-) SetToBag({c}))

\* C18: every invocation has made exactly one call into the native module,
\* whether that call is pending, resolved or rejected, and whether or not an
\* earlier invocation of the same operation already has a result.
C18_OneBridgeCallEach ==
    /\ \A c \in Made : c.bridgeCalls = 1
    /\ BridgeCallsOf(calls) = BagCardinality(calls)

C18_Witness ==
    /\ \E c \in Made :
           /\ c.op = "checkForDeferredDeepLink"
           /\ c.pc = "settled"
           /\ c.outcome.kind = "resolved"
           /\ c.bridgeCalls = 1
    /\ \E d \in Made :
           /\ d.op = "checkForDeferredDeepLink"
           /\ d.pc = "settled"
           /\ d.native.kind = "rejected"
           /\ d.bridgeCalls = 1

\* What an invocation hands to the native module, given its own argument.
Forwarded(c) == IF c.op = "configure" THEN ConfigurePayload(c.arg) ELSE c.arg

\* C19: whatever invocations overlap and in whatever order the native module
\* answers them, what an invocation forwards is made of its own argument
\* and what it settles with of its own native answer; a step touches one
\* invocation and leaves the others, and the build, as they are.
C19_CallsAreIndependent ==
    /\ [](\A c \in Made :
            /\ c.forwarded = Forwarded(c)
            /\ c.pc = "settled" => c.outcome = Settle(table, c.op, c.native)
            /\ c.pc = "awaiting" => c.outcome = Pending)
    /\ [][/\ BagCardinality(calls (-) calls') <= 1
          /\ BagCardinality(calls' (-) calls) <= 1
          /\ table' = table]_vars

C19_Witness ==
    /\ \E c \in Made :
           /\ c.op = "configure"
           /\ c.pc = "awaiting"
           /\ c.native = Pending
    /\ \E d \in Made :
           /\ d.op = "resolveLink"
           /\ d.pc = "settled"
           /\ d.outcome.kind = "resolved"

(***************************************************************************)
(* Progress.  The native module is assumed to settle every promise it      *)
(* returned, and the JavaScript engine runs the continuation of an await   *)
(* whose promise has settled; both are weak fairness conditions.  The      *)
(* answers are a few of Payloads and Rejections.                           *)
(***************************************************************************)
LivePayloads == { Undefined, Obj([matched |-> Bool(FALSE)]) }

LiveRejections == { Undefined, Obj([code |-> Str("NETWORK_ERROR")]) }

\* The native module settles a promise.
BridgeSettles ==
    \/ \E c \in BagToSet(calls), v \in LivePayloads : NativeResolve(c, v)
    \/ \E c \in BagToSet(calls), e \in LiveRejections : NativeReject(c, e)

\* The engine runs a continuation.
Continue == \E c \in BagToSet(calls) : Resume(c)

LiveNext ==
    \/ configure(Obj([clientAPIKey |-> Str("k")]))
    \/ checkForDeferredDeepLink
    \/ \E url \in Urls : resolveLink(url)
    \/ BridgeSettles
    \/ Continue

LiveSpec == Init /\ [][LiveNext]_vars /\ WF_vars(BridgeSettles) /\ WF_vars(Continue)

\* An invocation whose native call has settled and whose own promise has not.
Unresumed == \E c \in Made : c.pc = "awaiting" /\ c.native # Pending

AllSettled == \A c \in Made : c.pc = "settled" /\ c.outcome.kind \in {"resolved", "rejected"}

\* C20: every invocation made is eventually settled, resolved or rejected;
\* a settled invocation stays as it settled; and an invocation whose native
\* call has settled does not stay pending.
C20_RunsToCompletion ==
    /\ (Made # {}) ~> AllSettled
    /\ Unresumed ~> ~Unresumed
    /\ [][\A c \in Made : c.pc = "settled" => CopiesIn(c, calls') >= CopiesIn(c, calls)]_vars
    /\ [](\A c \in Made : c.pc = "awaiting" <=> c.outcome = Pending)

C20_Witness ==
    /\ Made # {}
    /\ AllSettled
    /\ \E c \in Made : c.native = Rejected(Undefined) /\ c.outcome.kind = "rejected"
    /\ \E d \in Made : d.native.kind = "resolved" /\ d.outcome.kind = "resolved"

(***************************************************************************)
(* Claims about the two generations of the error table (checked under      *)
(* ErrSpec).                                                               *)
(***************************************************************************)
BothNormalized == nerr # NoNormalizer /\ nerr7 # NoNormalizer

\* The codes only the 11-variant table recognizes.
NewerOnly ==
    { Str("INSTALL_REFERRER_UNAVAILABLE"), Str("INSTALL_REFERRER_TIMEOUT"),
      Str("INVALID_URL"), Str("INVALID_INTENT") }

\* C21: on every (code, message) whose code is one of the seven codes of
\* the smaller table, or is recognized by neither table, the two
\* generations of fromNativeError return the same code and message; they
\* differ exactly on INSTALL_REFERRER_UNAVAILABLE, INSTALL_REFERRER_TIMEOUT,
\* INVALID_URL and INVALID_INTENT, which the smaller table makes UNKNOWN.
C21_LargerTableExtendsSmaller ==
    BothNormalized =>
        /\ ncode \notin NewerOnly =>
               /\ nerr7.t = "DynalinksError"
               /\ nerr7.code = nerr.code
               /\ nerr7.message = nerr.message
        /\ ncode \in NewerOnly =>
               /\ nerr7.code = "UNKNOWN"
               /\ nerr7.message = UnknownMessage(nmsg)
               /\ nerr.code \in {"INSTALL_REFERRER_UNAVAILABLE", "INSTALL_REFERRER_TIMEOUT",
                                 "INVALID_URL"}

C21_Witness ==
    /\ BothNormalized
    /\ ncode = Str("NO_MATCH")
    /\ nmsg = Str("boom")
    /\ nerr7 = nerr
    /\ nerr7.code = "NO_MATCH"
    /\ nerr7.message = "No matching link found"

\* The two generations on a code of the newer table only.
C21_WitnessNewerOnly ==
    /\ BothNormalized
    /\ ncode = Str("INVALID_INTENT")
    /\ nmsg = Str("boom")
    /\ nerr.code = "INVALID_URL"
    /\ nerr7.code = "UNKNOWN"
    /\ nerr7.message = "boom"

(***************************************************************************)
(* Claims about the adapters' error codes (checked under NativeSpec).      *)
(***************************************************************************)
\* The SDK answered the call with one of its DynalinksError variants.
SdkRaised(c) ==
    /\ c.sdkCall # NoSdkCall
    /\ IsSdkError(c.sdkCall.answer)
    /\ IsDynalinksError(c.sdkCall.answer)

\* C22: the code convertError gives an SDK error variant is a code of the
\* 11-variant table, on every platform; with that table the typed error the
\* caller gets has the code the adapter emitted and is never UNKNOWN; the
\* Android InvalidIntent variant arrives as INVALID_URL.
C22_AdapterCodesAreTableCodes ==
    \A c \in Made :
        SdkRaised(c) =>
            /\ c.native.kind = "rejected"
            /\ Get(c.native.value, "code") \in { Str(k) : k \in TableCodes }
            /\ c.sdkCall.answer.variant = "InvalidIntent" =>
                   Get(c.native.value, "code") = Str("INVALID_URL")
            /\ table = "v11" /\ c.pc = "settled" =>
                   /\ c.outcome.kind = "rejected"
                   /\ c.outcome.value.t = "DynalinksError"
                   /\ c.outcome.value.code = Get(c.native.value, "code").v
                   /\ c.outcome.value.code # "UNKNOWN"

C22_Witness ==
    /\ platform = "android"
    /\ table = "v11"
    /\ \E c \in Made :
           /\ c.op = "resolveLink"
           /\ SdkRaised(c)
           /\ c.sdkCall.answer.variant = "InvalidIntent"
           /\ c.pc = "settled"
           /\ c.outcome.value.code = "INVALID_URL"

\* Stated of either table this fails: the 7-variant table turns INVALID_URL
\* and the two INSTALL_REFERRER codes the adapters emit into UNKNOWN.
C22_WithEitherTable ==
    \A c \in Made :
        SdkRaised(c) /\ c.pc = "settled" => c.outcome.value.code # "UNKNOWN"

\* What the SDK throws that is no DynalinksError does not pass convertError
\* and reaches the caller as UNKNOWN.
C22_OtherFailuresAreUnknown ==
    \A c \in Made :
        /\ c.sdkCall # NoSdkCall
        /\ IsSdkError(c.sdkCall.answer)
        /\ ~IsDynalinksError(c.sdkCall.answer)
        /\ c.pc = "settled"
        => c.outcome.value.code = "UNKNOWN"

====
